---- MODULE Spec2Model ----
(***************************************************************************)
(* Durable fan-out/fan-in image analysis workflow of function_app.py:      *)
(* blob_trigger starts image_analyzer_orchestrator, which fans out four    *)
(* analysis activities, joins them with task_all, chains generate_report   *)
(* and store_results, and get_results reads the table back.                *)
(***************************************************************************)
EXTENDS Integers, Sequences, FiniteSets, TLC

\* ------------------------------------------------------------------------
\* Bounds of the model
\* ------------------------------------------------------------------------
\* orchestration instances that blob_trigger may start
Instances == {"i1", "i2"}

\* crashes (a host restart, a worker lost with the result of generate_report
\* or store_results) in one run
MaxCrashes == 1

\* values datetime.utcnow() may return inside generate_report
MaxTime == 2

\* uuid4 values available: one per execution of generate_report
MaxUuid == Cardinality(Instances) + MaxCrashes

\* ------------------------------------------------------------------------
\* Program constants
\* ------------------------------------------------------------------------
TABLE_NAME == "ImageAnalysisResults"

PARTITION == "ImageAnalysis"

\* the four activities of the fan-out, in the order of analysis_tasks
AnalysisNames == <<"analyze_colors", "analyze_objects", "analyze_text", "analyze_metadata">>

\* all six activities, indexed by the sequence number call_activity gives them
ActivityNames == AnalysisNames \o <<"generate_report", "store_results">>

FanOut == 4

GenerateReportId == 5

StoreResultsId == 6

TaskIds == 1..Len(ActivityNames)

\* ------------------------------------------------------------------------
\* Arithmetic and formatting helpers
\* ------------------------------------------------------------------------
Abs(n) == IF n < 0 THEN -n ELSE n

\* Python round(): num/den to the nearest integer, ties to even
Round(num, den) ==
    LET q == num \div den
        r == num % den
    IN  IF 2 * r < den THEN q
        ELSE IF 2 * r > den THEN q + 1
        ELSE IF q % 2 = 0 THEN q ELSE q + 1

HexDigit == <<"0", "1", "2", "3", "4", "5", "6", "7", "8", "9", "a", "b", "c", "d", "e", "f">>

\* f"{n:02x}"
Hex2(n) == HexDigit[(n \div 16) + 1] \o HexDigit[(n % 16) + 1]

\* f"#{r:02x}{g:02x}{b:02x}"
HexColor(r, g, b) == "#" \o Hex2(r) \o Hex2(g) \o Hex2(b)

\* ------------------------------------------------------------------------
\* Blobs.  A blob is what PIL sees of its bytes: whether Image.open accepts
\* the header, whether the pixel data loads, and the decoded content.
\* ------------------------------------------------------------------------
CatPng ==
    [nbytes |-> 12595, decodable |-> TRUE, loadable |-> TRUE,
     width |-> 100, height |-> 50, format |-> "PNG", mode |-> "RGB",
     pixels |-> <<<<200, 100, 50>>, <<10, 10, 10>>, <<205, 110, 60>>, <<12, 14, 8>>, <<220, 120, 40>>>>,
     exif |-> << >>]

\* header intact, pixel data cut off: Image.open succeeds, resize raises
TruncatedJpg ==
    [nbytes |-> 2048, decodable |-> TRUE, loadable |-> FALSE,
     width |-> 50, height |-> 50, format |-> "JPEG", mode |-> "L",
     pixels |-> << >>,
     exif |-> <<[tag |-> "Make", value |-> "Canon"]>>]

\* not an image at all: Image.open raises
Garbage ==
    [nbytes |-> 7, decodable |-> FALSE, loadable |-> FALSE,
     width |-> 0, height |-> 0, format |-> "", mode |-> "",
     pixels |-> << >>, exif |-> << >>]

\* myblob.name: a path given by its segments, or None (InputStream.name is
\* Optional[str])
CatName == [isNone |-> FALSE, parts |-> <<"images", "cat.png">>]

NoName == [isNone |-> TRUE, parts |-> << >>]

\* the blobs that arrive in the container
Uploads ==
    {[name |-> CatName, blob |-> CatPng],
     [name |-> CatName, blob |-> TruncatedJpg],
     [name |-> CatName, blob |-> Garbage],
     [name |-> NoName, blob |-> CatPng]}

\* ------------------------------------------------------------------------
\* 3. analyze_colors
\* ------------------------------------------------------------------------
\* key = (r // 32 * 32, g // 32 * 32, b // 32 * 32)
Quantize(p) == <<(p[1] \div 32) * 32, (p[2] \div 32) * 32, (p[3] \div 32) * 32>>

\* color_counts, a dict kept as the sequence of its items in insertion order
RECURSIVE CountColors(_, _)
CountColors(pixels, counts) ==
    IF pixels = << >> THEN counts
    ELSE LET key == Quantize(Head(pixels))
             hit == {k \in 1..Len(counts) : counts[k].key = key}
         IN  IF hit = {}
             THEN CountColors(Tail(pixels), Append(counts, [key |-> key, count |-> 1]))
             ELSE LET k == CHOOSE j \in hit : TRUE
                  IN  CountColors(Tail(pixels),
                                  [counts EXCEPT ![k].count = counts[k].count + 1])

\* sorted(items, key=count, reverse=True): stable, ties keep insertion order
RECURSIVE SortByCountDesc(_)
SortByCountDesc(items) ==
    IF items = << >> THEN << >>
    ELSE LET best == CHOOSE k \in 1..Len(items) :
                        /\ \A j \in 1..Len(items) : items[j].count <= items[k].count
                        /\ \A j \in 1..(k - 1) : items[j].count < items[k].count
             rest == [j \in 1..(Len(items) - 1) |-> IF j < best THEN items[j] ELSE items[j + 1]]
         IN  <<items[best]>> \o SortByCountDesc(rest)

\* the entries of top_colors; percentage is kept in tenths of a percent
TopColors(pixels) ==
    LET sorted_colors == SortByCountDesc(CountColors(pixels, << >>))
        top == SubSeq(sorted_colors, 1, IF Len(sorted_colors) < 5 THEN Len(sorted_colors) ELSE 5)
    IN  [k \in 1..Len(top) |->
            [hex |-> HexColor(top[k].key[1], top[k].key[2], top[k].key[3]),
             rgb |-> [r |-> top[k].key[1], g |-> top[k].key[2], b |-> top[k].key[3]],
             percentage |-> Round(top[k].count * 1000, Len(pixels))]]

\* grayscale_pixels / len(pixels) > 0.9
IsGrayscale(pixels) ==
    LET gray == {k \in 1..Len(pixels) :
                    /\ Abs(pixels[k][1] - pixels[k][2]) < 30
                    /\ Abs(pixels[k][2] - pixels[k][3]) < 30}
    IN  10 * Cardinality(gray) > 9 * Len(pixels)

\* An activity outcome: ok with the returned value, or the exception that
\* escaped the function (the host records it as TaskFailed).
Returned(v) == [ok |-> TRUE, value |-> v]

Raised(msg) == [ok |-> FALSE, value |-> msg]

\* the message of the exception the try block of an analysis raises, "" if none
OpenError(blob) == IF blob.decodable THEN "" ELSE "cannot identify image file"

LoadError(blob) ==
    IF ~blob.decodable THEN OpenError(blob)
    ELSE IF ~blob.loadable THEN "image file is truncated"
    ELSE ""

\* analyze_colors without the try/except: the exception escapes
analyze_colors_raising(inputData) ==
    LET blob == inputData.blob_bytes
    IN  IF LoadError(blob) = ""
        THEN Returned([dominantColors |-> TopColors(blob.pixels),
              isGrayscale |-> IsGrayscale(blob.pixels),
              totalPixelsSampled |-> Len(blob.pixels)])
        ELSE Raised(LoadError(blob))

\* analyze_colors whose except branch returns the defaults without the message
analyze_colors_silent(inputData) ==
    LET blob == inputData.blob_bytes
    IN  IF LoadError(blob) = ""
        THEN Returned([dominantColors |-> TopColors(blob.pixels),
              isGrayscale |-> IsGrayscale(blob.pixels),
              totalPixelsSampled |-> Len(blob.pixels)])
        ELSE Returned([dominantColors |-> << >>,
              isGrayscale |-> FALSE,
              totalPixelsSampled |-> 0])

analyze_colors(inputData) ==
    LET blob == inputData.blob_bytes
    IN  IF LoadError(blob) = ""
        THEN Returned([dominantColors |-> TopColors(blob.pixels),
              isGrayscale |-> IsGrayscale(blob.pixels),
              totalPixelsSampled |-> Len(blob.pixels)])
        ELSE Returned([dominantColors |-> << >>,
              isGrayscale |-> FALSE,
              totalPixelsSampled |-> 0,
              error |-> LoadError(blob)])

\* ------------------------------------------------------------------------
\* 4. analyze_objects (mock)
\* ------------------------------------------------------------------------
MockObjects(width, height) ==
    <<IF width > height THEN [name |-> "landscape", confidence |-> 85]
      ELSE IF height > width THEN [name |-> "portrait", confidence |-> 82]
      ELSE [name |-> "square composition", confidence |-> 90]>>
    \o (IF width * height > 1000000
        THEN <<[name |-> "high-resolution scene", confidence |-> 78]>>
        ELSE << >>)
    \o <<[name |-> "digital image", confidence |-> 99]>>

analyze_objects(inputData) ==
    LET blob == inputData.blob_bytes
    IN  IF OpenError(blob) = ""
        THEN Returned([objects |-> MockObjects(blob.width, blob.height),
              objectCount |-> Len(MockObjects(blob.width, blob.height)),
              note |-> "Mock analysis - replace with Azure Computer Vision for real detection"])
        ELSE Returned([objects |-> << >>,
              objectCount |-> 0,
              error |-> OpenError(blob)])

\* ------------------------------------------------------------------------
\* 5. analyze_text (mock)
\* ------------------------------------------------------------------------
analyze_text(inputData) ==
    LET blob == inputData.blob_bytes
    IN  IF OpenError(blob) = ""
        THEN Returned([hasText |-> FALSE, extractedText |-> "", confidence |-> 0,
              language |-> "unknown",
              note |-> "Mock OCR - replace with Azure Computer Vision Read API for real text extraction"])
        ELSE Returned([hasText |-> FALSE, extractedText |-> "", confidence |-> 0,
              error |-> OpenError(blob)])

\* ------------------------------------------------------------------------
\* 6. analyze_metadata
\* ------------------------------------------------------------------------
analyze_metadata(inputData) ==
    LET blob == inputData.blob_bytes
    IN  IF OpenError(blob) = ""
        THEN Returned([width |-> blob.width,
              height |-> blob.height,
              format |-> IF blob.format # "" THEN blob.format ELSE "Unknown",
              mode |-> blob.mode,
              totalPixels |-> blob.width * blob.height,
              megapixels |-> Round(blob.width * blob.height * 100, 1000000),
              sizeKB |-> inputData.blob_size_kb,
              aspectRatio |-> ToString(blob.width) \o ":" \o ToString(blob.height),
              hasExifData |-> Len(blob.exif) > 0,
              exifData |-> blob.exif])
        ELSE Returned([width |-> 0,
              height |-> 0,
              format |-> "Unknown",
              error |-> OpenError(blob)])

\* ------------------------------------------------------------------------
\* 7. generate_report
\* ------------------------------------------------------------------------
\* dict.get(key, default)
Get(d, key, default) == IF key \in DOMAIN d THEN d[key] ELSE default

RECURSIVE JoinPath(_)
JoinPath(parts) ==
    IF Len(parts) = 1 THEN parts[1]
    ELSE parts[1] \o "/" \o JoinPath(Tail(parts))

\* blob_name.split("/")[-1] if "/" in blob_name else blob_name
FileNameOf(blob_name) ==
    IF Len(blob_name.parts) > 1 THEN blob_name.parts[Len(blob_name.parts)]
    ELSE JoinPath(blob_name.parts)

\* str(uuid.uuid4()): the n-th value drawn
UuidStr(n) == "uuid-" \o ToString(n)

\* a summary that takes the least dominant colour
Summary_last_color(reportData) ==
    [imageSize |-> ToString(Get(reportData.metadata, "width", 0)) \o "x"
                   \o ToString(Get(reportData.metadata, "height", 0)),
     format |-> Get(reportData.metadata, "format", "Unknown"),
     dominantColor |-> IF Get(reportData.colors, "dominantColors", << >>) # << >>
                       THEN reportData.colors.dominantColors[Len(reportData.colors.dominantColors)].hex
                       ELSE "N/A",
     objectsDetected |-> Get(reportData.objects, "objectCount", 0),
     hasText |-> Get(reportData.text, "hasText", FALSE),
     isGrayscale |-> Get(reportData.colors, "isGrayscale", FALSE)]

Summary(reportData) ==
    [imageSize |-> ToString(Get(reportData.metadata, "width", 0)) \o "x"
                   \o ToString(Get(reportData.metadata, "height", 0)),
     format |-> Get(reportData.metadata, "format", "Unknown"),
     dominantColor |-> IF Get(reportData.colors, "dominantColors", << >>) # << >>
                       THEN reportData.colors.dominantColors[1].hex
                       ELSE "N/A",
     objectsDetected |-> Get(reportData.objects, "objectCount", 0),
     hasText |-> Get(reportData.text, "hasText", FALSE),
     isGrayscale |-> Get(reportData.colors, "isGrayscale", FALSE)]

\* generate_report that takes the id from the blob path
generate_report_path_id(reportData, uuid, now) ==
    IF reportData.blob_name.isNone
    THEN Raised("TypeError: argument of type 'NoneType' is not iterable")
    ELSE Returned(
           [id |-> JoinPath(reportData.blob_name.parts),
            fileName |-> FileNameOf(reportData.blob_name),
            blobPath |-> JoinPath(reportData.blob_name.parts),
            analyzedAt |-> now,
            analyses |-> [colors |-> reportData.colors,
                          objects |-> reportData.objects,
                          text |-> reportData.text,
                          metadata |-> reportData.metadata],
            summary |-> Summary(reportData)])

generate_report(reportData, uuid, now) ==
    IF reportData.blob_name.isNone
    THEN Raised("TypeError: argument of type 'NoneType' is not iterable")
    ELSE Returned(
           [id |-> UuidStr(uuid),
            fileName |-> FileNameOf(reportData.blob_name),
            blobPath |-> JoinPath(reportData.blob_name.parts),
            analyzedAt |-> now,
            analyses |-> [colors |-> reportData.colors,
                          objects |-> reportData.objects,
                          text |-> reportData.text,
                          metadata |-> reportData.metadata],
            summary |-> Summary(reportData)])

\* ------------------------------------------------------------------------
\* Table storage and 8. store_results
\* ------------------------------------------------------------------------
\* json.dumps / json.loads: the text is opaque to the table
JsonDumps(v) == [json |-> v]

JsonLoads(s) == s.json

EmptyRows == [k \in {} |-> [PartitionKey |-> PARTITION]]

\* the storage account before any call: no table
NoTable == [exists |-> FALSE, rows |-> EmptyRows]

\* get_table_client(): create_table_if_not_exists(TABLE_NAME)
get_table_client(tbl) == [tbl EXCEPT !.exists = TRUE]

\* an upsert that inserts: a row whose keys are taken gets a sibling row
upsert_entity_insert(tbl, entity) ==
    LET key == <<entity.PartitionKey, entity.RowKey>>
        free == IF key \in DOMAIN tbl.rows
                THEN <<entity.PartitionKey, entity.RowKey \o "-2">>
                ELSE key
    IN  [tbl EXCEPT !.rows = [k \in DOMAIN tbl.rows \cup {free} |->
                                IF k = free THEN entity ELSE tbl.rows[k]]]

\* TableClient.upsert_entity(entity), default mode MERGE: the entity's
\* properties replace or extend those of the row with the same keys
upsert_entity(tbl, entity) ==
    LET key == <<entity.PartitionKey, entity.RowKey>>
        merged == IF key \in DOMAIN tbl.rows
                  THEN [f \in DOMAIN tbl.rows[key] \cup DOMAIN entity |->
                          IF f \in DOMAIN entity THEN entity[f] ELSE tbl.rows[key][f]]
                  ELSE entity
    IN  [tbl EXCEPT !.rows = [k \in DOMAIN tbl.rows \cup {key} |->
                                IF k = key THEN merged ELSE tbl.rows[k]]]

Entity(report) ==
    [PartitionKey |-> PARTITION,
     RowKey |-> report.id,
     FileName |-> report.fileName,
     BlobPath |-> report.blobPath,
     AnalyzedAt |-> report.analyzedAt,
     Summary |-> JsonDumps(report.summary),
     ColorAnalysis |-> JsonDumps(report.analyses.colors),
     ObjectAnalysis |-> JsonDumps(report.analyses.objects),
     TextAnalysis |-> JsonDumps(report.analyses.text),
     MetadataAnalysis |-> JsonDumps(report.analyses.metadata)]

\* what the storage account does during one call of store_results: it
\* serves the call, it is unreachable so that get_table_client raises, or it
\* hands out the table and upsert_entity raises
StorageOutcomes == {"ok", "unavailable", "upsert_fails"}

\* the keys of report that the try block of store_results reads
EntityFields == {"id", "fileName", "blobPath", "analyzedAt", "summary", "analyses"}

\* the record of the except branch
StoreError(report, msg) ==
    Returned([id |-> Get(report, "id", "unknown"), status |-> "error", error |-> msg])

\* store_results that draws the row key when it writes
store_results_own_key(report, tbl, storage) ==
    IF "fileName" \notin DOMAIN report
    THEN [outcome |-> Raised("KeyError: 'fileName'"), table |-> tbl]
    ELSE IF storage = "unavailable"
    THEN [outcome |-> StoreError(report, "storage unavailable"), table |-> tbl]
    ELSE IF ~(EntityFields \subseteq DOMAIN report)
    THEN [outcome |-> StoreError(report, "KeyError"), table |-> get_table_client(tbl)]
    ELSE IF storage = "upsert_fails"
    THEN [outcome |-> StoreError(report, "upsert failed"), table |-> get_table_client(tbl)]
    ELSE [outcome |-> Returned([id |-> report.id,
                                fileName |-> report.fileName,
                                status |-> "stored",
                                analyzedAt |-> report.analyzedAt,
                                summary |-> report.summary]),
          table |-> upsert_entity(get_table_client(tbl),
                                  [Entity(report) EXCEPT
                                     !.RowKey = "row-" \o ToString(Cardinality(DOMAIN tbl.rows) + 1)])]

\* store_results whose except branch logs the error and raises it again
store_results_reraise(report, tbl, storage) ==
    IF "fileName" \notin DOMAIN report
    THEN [outcome |-> Raised("KeyError: 'fileName'"), table |-> tbl]
    ELSE IF storage = "unavailable"
    THEN [outcome |-> Raised("storage unavailable"), table |-> tbl]
    ELSE IF ~(EntityFields \subseteq DOMAIN report)
    THEN [outcome |-> Raised("KeyError"), table |-> get_table_client(tbl)]
    ELSE IF storage = "upsert_fails"
    THEN [outcome |-> Raised("upsert failed"), table |-> get_table_client(tbl)]
    ELSE [outcome |-> Returned([id |-> report.id,
                                fileName |-> report.fileName,
                                status |-> "stored",
                                analyzedAt |-> report.analyzedAt,
                                summary |-> report.summary]),
          table |-> upsert_entity(get_table_client(tbl), Entity(report))]

\* store_results: [outcome, table after the call].  The logging line before
\* the try reads report['fileName'] and lets a KeyError escape; everything
\* after it is caught.
store_results(report, tbl, storage) ==
    IF "fileName" \notin DOMAIN report
    THEN [outcome |-> Raised("KeyError: 'fileName'"), table |-> tbl]
    ELSE IF storage = "unavailable"
    THEN [outcome |-> StoreError(report, "storage unavailable"), table |-> tbl]
    ELSE IF ~(EntityFields \subseteq DOMAIN report)
    THEN [outcome |-> StoreError(report, "KeyError"), table |-> get_table_client(tbl)]
    ELSE IF storage = "upsert_fails"
    THEN [outcome |-> StoreError(report, "upsert failed"), table |-> get_table_client(tbl)]
    ELSE [outcome |-> Returned([id |-> report.id,
                                fileName |-> report.fileName,
                                status |-> "stored",
                                analyzedAt |-> report.analyzedAt,
                                summary |-> report.summary]),
          table |-> upsert_entity(get_table_client(tbl), Entity(report))]

\* ------------------------------------------------------------------------
\* 9. get_results
\* ------------------------------------------------------------------------
Digits == <<"0", "1", "2", "3", "4", "5", "6", "7", "8", "9">>

IsDigit(c) == \E d \in DOMAIN Digits : Digits[d] = c

DigitValue(c) == (CHOOSE d \in DOMAIN Digits : Digits[d] = c) - 1

RECURSIVE DecimalValue(_)
DecimalValue(chars) ==
    IF chars = << >> THEN 0
    ELSE 10 * DecimalValue(SubSeq(chars, 1, Len(chars) - 1)) + DigitValue(chars[Len(chars)])

\* str.strip(): chars without its leading and trailing blanks
RECURSIVE Strip(_)
Strip(chars) ==
    IF chars = << >> THEN chars
    ELSE IF chars[1] = " " THEN Strip(Tail(chars))
    ELSE IF chars[Len(chars)] = " " THEN Strip(SubSeq(chars, 1, Len(chars) - 1))
    ELSE chars

\* int(s) of a query parameter, given as its characters: blanks around an
\* optional sign and one or more decimal digits, anything else raises
int(chars) ==
    LET text == Strip(chars)
        signed == text # << >> /\ text[1] \in {"-", "+"}
        digits == IF signed THEN Tail(text) ELSE text
    IN  IF digits = << >> \/ \E k \in DOMAIN digits : ~IsDigit(digits[k])
        THEN Raised("invalid literal for int() with base 10")
        ELSE Returned(IF signed /\ text[1] = "-"
                      THEN 0 - DecimalValue(digits)
                      ELSE DecimalValue(digits))

\* the position of a row key in the order the table service lists row keys
KeyRank(rowKey) ==
    IF \E n \in 1..MaxUuid : UuidStr(n) = rowKey
    THEN CHOOSE n \in 1..MaxUuid : UuidStr(n) = rowKey
    ELSE 0

\* table_client.get_entity(partition_key, row_key): the row, or it raises
get_entity(tbl, partition_key, row_key) ==
    IF <<partition_key, row_key>> \in DOMAIN tbl.rows
    THEN Returned(tbl.rows[<<partition_key, row_key>>])
    ELSE Raised("ResourceNotFound")

\* table_client.query_entities("PartitionKey eq ..."): the rows of the
\* partition, in the order of their row keys
RECURSIVE ByRowKey(_, _)
ByRowKey(tbl, keys) ==
    IF keys = {} THEN << >>
    ELSE LET first == CHOOSE k \in keys : \A other \in keys : KeyRank(k[2]) <= KeyRank(other[2])
         IN  <<tbl.rows[first]>> \o ByRowKey(tbl, keys \ {first})

query_entities(tbl, partition_key) ==
    ByRowKey(tbl, {k \in DOMAIN tbl.rows : k[1] = partition_key})

\* the columns the get-by-id branch reads from the entity
ResultColumns ==
    {"RowKey", "FileName", "BlobPath", "AnalyzedAt", "Summary",
     "ColorAnalysis", "ObjectAnalysis", "TextAnalysis", "MetadataAnalysis"}

\* a result that hands out the Summary column as it is stored
ResultOf_raw_summary(entity) ==
    [id |-> entity.RowKey,
     fileName |-> entity.FileName,
     blobPath |-> entity.BlobPath,
     analyzedAt |-> entity.AnalyzedAt,
     summary |-> entity.Summary,
     analyses |-> [colors |-> JsonLoads(entity.ColorAnalysis),
                   objects |-> JsonLoads(entity.ObjectAnalysis),
                   text |-> JsonLoads(entity.TextAnalysis),
                   metadata |-> JsonLoads(entity.MetadataAnalysis)]]

\* the result of the get-by-id branch
ResultOf(entity) ==
    [id |-> entity.RowKey,
     fileName |-> entity.FileName,
     blobPath |-> entity.BlobPath,
     analyzedAt |-> entity.AnalyzedAt,
     summary |-> JsonLoads(entity.Summary),
     analyses |-> [colors |-> JsonLoads(entity.ColorAnalysis),
                   objects |-> JsonLoads(entity.ObjectAnalysis),
                   text |-> JsonLoads(entity.TextAnalysis),
                   metadata |-> JsonLoads(entity.MetadataAnalysis)]]

\* the columns the list branch reads from each entity
ListColumns == {"RowKey", "FileName", "AnalyzedAt", "Summary"}

\* an entry of the list branch
ListEntryOf(entity) ==
    [id |-> entity.RowKey,
     fileName |-> entity.FileName,
     analyzedAt |-> entity.AnalyzedAt,
     summary |-> JsonLoads(entity.Summary)]

\* results.sort(key=analyzedAt, reverse=True): stable, entries with the same
\* key keep their order
RECURSIVE SortByAnalyzedAtDesc(_)
SortByAnalyzedAtDesc(results) ==
    IF results = << >> THEN << >>
    ELSE LET top == CHOOSE k \in DOMAIN results :
                        /\ \A m \in DOMAIN results : results[m].analyzedAt <= results[k].analyzedAt
                        /\ \A m \in 1..(k - 1) : results[m].analyzedAt < results[k].analyzedAt
         IN  <<results[top]>>
               \o SortByAnalyzedAtDesc(SubSeq(results, 1, top - 1)
                                         \o SubSeq(results, top + 1, Len(results)))

\* results[:limit]: the first limit entries, and for a negative limit all
\* but the last -limit entries
Slice(results, limit) ==
    IF limit >= 0
    THEN SubSeq(results, 1, IF limit < Len(results) THEN limit ELSE Len(results))
    ELSE SubSeq(results, 1, IF Len(results) + limit > 0 THEN Len(results) + limit ELSE 0)

HttpResponse(payload, status_code) ==
    [status_code |-> status_code, mimetype |-> "application/json", body |-> JsonDumps(payload)]

\* what the storage account does during one call of get_results: it serves
\* the call, it is unreachable so that get_table_client raises, or it hands
\* out the table and the read of the rows raises
ReadOutcomes == {"ok", "unavailable", "read_fails"}

\* get_results whose get-by-id answers 200 with an empty result when the
\* row cannot be read
get_results_empty_200(req, tbl, storage) ==
    IF storage = "unavailable"
    THEN [response |-> HttpResponse([error |-> "storage unavailable"], 500), table |-> tbl]
    ELSE LET table_client == get_table_client(tbl)
             result_id == Get(req.route_params, "id", "")
         IN  IF result_id # ""
             THEN LET entity == IF storage = "read_fails"
                                THEN Raised("read failed")
                                ELSE get_entity(table_client, PARTITION, result_id)
                  IN  [response |->
                         IF entity.ok /\ ResultColumns \subseteq DOMAIN entity.value
                         THEN HttpResponse(ResultOf(entity.value), 200)
                         ELSE HttpResponse([id |-> result_id], 200),
                       table |-> table_client]
             ELSE LET limit == int(Get(req.params, "limit", <<"1", "0">>))
                      entities == query_entities(table_client, PARTITION)
                  IN  [response |->
                         IF ~limit.ok
                         THEN HttpResponse([error |-> limit.value], 500)
                         ELSE IF storage = "read_fails"
                         THEN HttpResponse([error |-> "read failed"], 500)
                         ELSE IF \E k \in DOMAIN entities : ~(ListColumns \subseteq DOMAIN entities[k])
                         THEN HttpResponse([error |-> "KeyError"], 500)
                         ELSE LET results == Slice(SortByAnalyzedAtDesc(
                                                 [k \in DOMAIN entities |-> ListEntryOf(entities[k])]),
                                                   limit.value)
                              IN  HttpResponse([count |-> Len(results), results |-> results], 200),
                       table |-> table_client]

\* get_results: [response, table after the call].  req.route_params may hold
\* id and req.params may hold limit.
get_results(req, tbl, storage) ==
    IF storage = "unavailable"
    THEN [response |-> HttpResponse([error |-> "storage unavailable"], 500), table |-> tbl]
    ELSE LET table_client == get_table_client(tbl)
             result_id == Get(req.route_params, "id", "")
         IN  IF result_id # ""
             THEN LET entity == IF storage = "read_fails"
                                THEN Raised("read failed")
                                ELSE get_entity(table_client, PARTITION, result_id)
                  IN  [response |->
                         IF entity.ok /\ ResultColumns \subseteq DOMAIN entity.value
                         THEN HttpResponse(ResultOf(entity.value), 200)
                         ELSE HttpResponse([error |-> "Result not found: " \o result_id], 404),
                       table |-> table_client]
             ELSE LET limit == int(Get(req.params, "limit", <<"1", "0">>))
                      entities == query_entities(table_client, PARTITION)
                  IN  [response |->
                         IF ~limit.ok
                         THEN HttpResponse([error |-> limit.value], 500)
                         ELSE IF storage = "read_fails"
                         THEN HttpResponse([error |-> "read failed"], 500)
                         ELSE IF \E k \in DOMAIN entities : ~(ListColumns \subseteq DOMAIN entities[k])
                         THEN HttpResponse([error |-> "KeyError"], 500)
                         ELSE LET results == Slice(SortByAnalyzedAtDesc(
                                                 [k \in DOMAIN entities |-> ListEntryOf(entities[k])]),
                                                   limit.value)
                              IN  HttpResponse([count |-> Len(results), results |-> results], 200),
                       table |-> table_client]

\* ------------------------------------------------------------------------
\* State
\* ------------------------------------------------------------------------
VARIABLES
    status,     \* status[i]: runtime status of orchestration instance i
    input,      \* input[i]: client_input given to start_new
    history,    \* history[i]: the instance's append-only event log
    table,      \* the table ImageAnalysisResults of the storage account
    nextUuid,   \* number of uuid4 values drawn so far, plus one
    crashLog,   \* the crashes of this run: a host restart with or without
                \* outstanding tasks, or a worker lost with an activity's result
    http,       \* the last call of get_results, if any: <<[request, response]>>
    direct      \* a call of generate_report on a reportData of its own, if any:
                \* <<[reportData]>>, and <<[reportData, report]>> once it returned

vars == <<status, input, history, table, nextUuid, crashLog, http, direct>>

\* input of an instance that blob_trigger has not started yet
NoInput ==
    [blob_name |-> NoName, blob_bytes |-> Garbage, blob_size_kb |-> 0]

\* ------------------------------------------------------------------------
\* History log
\* ------------------------------------------------------------------------
TaskScheduled(task) ==
    [kind |-> "TaskScheduled", taskId |-> task.taskId, name |-> task.name, input |-> task.input]

\* the completion event of task t for an activity outcome
TaskDone(t, outcome) ==
    IF outcome.ok
    THEN [kind |-> "TaskCompleted", taskId |-> t, result |-> outcome.value]
    ELSE [kind |-> "TaskFailed", taskId |-> t, reason |-> outcome.value]

OrchestratorCompleted(state, output) ==
    [kind |-> "OrchestratorCompleted", status |-> state, output |-> output]

ScheduledAt(h, t) ==
    {k \in 1..Len(h) : h[k].kind = "TaskScheduled" /\ h[k].taskId = t}

CompletedAt(h, t) ==
    {k \in 1..Len(h) : h[k].kind \in {"TaskCompleted", "TaskFailed"} /\ h[k].taskId = t}

IsScheduled(h, t) == ScheduledAt(h, t) # {}

HasCompletion(h, t) == CompletedAt(h, t) # {}

Min(S) == CHOOSE n \in S : \A m \in S : n <= m

\* the completion event the replay binds to task t
CompletionOf(h, t) == h[Min(CompletedAt(h, t))]

\* tasks with a TaskScheduled event and no completion event
Outstanding(h) == {t \in TaskIds : IsScheduled(h, t) /\ ~HasCompletion(h, t)}

\* ------------------------------------------------------------------------
\* 2. image_analyzer_orchestrator, replayed against a history
\* ------------------------------------------------------------------------
\* context.call_activity(name, input): the task with the next sequence number
call_activity(taskId, name, payload) == [taskId |-> taskId, name |-> name, input |-> payload]

\* a call_activity that is not awaited: the orchestrator goes on with what it has
Await_nowait(h, task) ==
    IF ~HasCompletion(h, task.taskId) THEN [state |-> "Succeeded", value |-> task.input]
    ELSE LET e == CompletionOf(h, task.taskId)
         IN  IF e.kind = "TaskCompleted"
             THEN [state |-> "Succeeded", value |-> e.result]
             ELSE [state |-> "Failed", value |-> e.reason]

\* a yield wrapped in try/except: the failure becomes the value
Await_swallow(h, task) ==
    IF ~HasCompletion(h, task.taskId) THEN [state |-> "Pending"]
    ELSE LET e == CompletionOf(h, task.taskId)
         IN  IF e.kind = "TaskCompleted"
             THEN [state |-> "Succeeded", value |-> e.result]
             ELSE [state |-> "Succeeded", value |-> [status |-> "error", error |-> e.reason]]

\* a yield whose value is what was handed to the task
Await_echo(h, task) ==
    IF ~HasCompletion(h, task.taskId) THEN [state |-> "Pending"]
    ELSE LET e == CompletionOf(h, task.taskId)
         IN  IF e.kind = "TaskCompleted"
             THEN [state |-> "Succeeded", value |-> task.input]
             ELSE [state |-> "Failed", value |-> e.reason]

\* a yielded task as the replay sees it: Pending, Succeeded with the result,
\* or Failed with the reason (the yield raises)
Await(h, task) ==
    IF ~HasCompletion(h, task.taskId) THEN [state |-> "Pending"]
    ELSE LET e == CompletionOf(h, task.taskId)
         IN  IF e.kind = "TaskCompleted"
             THEN [state |-> "Succeeded", value |-> e.result]
             ELSE [state |-> "Failed", value |-> e.reason]

\* task_all that stops waiting before the last task of the list
task_all_but_last(h, tasks) ==
    LET ids == {tasks[k].taskId : k \in 1..Len(tasks)}
        failures == {k \in 1..Len(h) : h[k].kind = "TaskFailed" /\ h[k].taskId \in ids}
        pending == {k \in 1..(Len(tasks) - 1) : ~HasCompletion(h, tasks[k].taskId)}
    IN  IF failures # {} THEN [state |-> "Failed", value |-> h[Min(failures)].reason]
        ELSE IF pending # {} THEN [state |-> "Pending"]
        ELSE [state |-> "Succeeded",
              value |-> [k \in 1..Len(tasks) |->
                           IF HasCompletion(h, tasks[k].taskId)
                           THEN CompletionOf(h, tasks[k].taskId).result
                           ELSE [error |-> "pending"]]]

\* task_all that returns the results in the order the completions arrived
task_all_by_arrival(h, tasks) ==
    LET ids == {tasks[k].taskId : k \in 1..Len(tasks)}
        failures == {k \in 1..Len(h) : h[k].kind = "TaskFailed" /\ h[k].taskId \in ids}
        pending == {k \in 1..Len(tasks) : ~HasCompletion(h, tasks[k].taskId)}
        arrived == SelectSeq(h, LAMBDA e : e.kind = "TaskCompleted" /\ e.taskId \in ids)
    IN  IF failures # {} THEN [state |-> "Failed", value |-> h[Min(failures)].reason]
        ELSE IF pending # {} THEN [state |-> "Pending"]
        ELSE [state |-> "Succeeded",
              value |-> [k \in 1..Len(tasks) |-> arrived[k].result]]

\* task_all that waits for one completion more than it has tasks
task_all_one_more(h, tasks) ==
    LET ids == {tasks[k].taskId : k \in 1..Len(tasks)}
        failures == {k \in 1..Len(h) : h[k].kind = "TaskFailed" /\ h[k].taskId \in ids}
        pending == {k \in 1..(Len(tasks) + 1) : ~HasCompletion(h, k)}
    IN  IF failures # {} THEN [state |-> "Failed", value |-> h[Min(failures)].reason]
        ELSE IF pending # {} THEN [state |-> "Pending"]
        ELSE [state |-> "Succeeded",
              value |-> [k \in 1..Len(tasks) |-> CompletionOf(h, tasks[k].taskId).result]]

\* context.task_all(tasks): fails with the first failure in the history,
\* succeeds once no child is pending, with the results in the order of tasks
task_all(h, tasks) ==
    LET ids == {tasks[k].taskId : k \in 1..Len(tasks)}
        failures == {k \in 1..Len(h) : h[k].kind = "TaskFailed" /\ h[k].taskId \in ids}
        pending == {k \in 1..Len(tasks) : ~HasCompletion(h, tasks[k].taskId)}
    IN  IF failures # {} THEN [state |-> "Failed", value |-> h[Min(failures)].reason]
        ELSE IF pending # {} THEN [state |-> "Pending"]
        ELSE [state |-> "Succeeded",
              value |-> [k \in 1..Len(tasks) |-> CompletionOf(h, tasks[k].taskId).result]]

\* One replay of the generator: the tasks it has yielded so far, in order,
\* and where it stands (Suspended at a yield, Completed by return, Failed by
\* an exception raised at a yield).
image_analyzer_orchestrator(h, input_data) ==
    LET analysis_tasks == [k \in 1..FanOut |-> call_activity(k, AnalysisNames[k], input_data)]
        results == task_all(h, analysis_tasks)
        report_input == [blob_name |-> input_data.blob_name,
                         colors |-> results.value[1],
                         objects |-> results.value[2],
                         text |-> results.value[3],
                         metadata |-> results.value[4]]
        report_task == call_activity(GenerateReportId, "generate_report", report_input)
        report == Await(h, report_task)
        store_task == call_activity(StoreResultsId, "store_results", report.value)
        record == Await(h, store_task)
    IN  IF results.state = "Pending"
        THEN [actions |-> analysis_tasks, state |-> "Suspended"]
        ELSE IF results.state = "Failed"
        THEN [actions |-> analysis_tasks, state |-> "Failed", output |-> results.value]
        ELSE IF report.state = "Pending"
        THEN [actions |-> Append(analysis_tasks, report_task), state |-> "Suspended"]
        ELSE IF report.state = "Failed"
        THEN [actions |-> Append(analysis_tasks, report_task),
              state |-> "Failed", output |-> report.value]
        ELSE IF record.state = "Pending"
        THEN [actions |-> analysis_tasks \o <<report_task, store_task>>, state |-> "Suspended"]
        ELSE IF record.state = "Failed"
        THEN [actions |-> analysis_tasks \o <<report_task, store_task>>,
              state |-> "Failed", output |-> record.value]
        ELSE [actions |-> analysis_tasks \o <<report_task, store_task>>,
              state |-> "Completed", output |-> record.value]

\* every yielded task counts as new
NewTasks_unfiltered(h, actions) == actions

\* the yielded tasks that have no TaskScheduled event yet
NewTasks(h, actions) == SelectSeq(actions, LAMBDA a : ~IsScheduled(h, a.taskId))

\* a replay that schedules again the tasks that have no completion event
Replayed_reissue(h, input_data) ==
    LET run == image_analyzer_orchestrator(h, input_data)
        new == SelectSeq(run.actions, LAMBDA a : ~HasCompletion(h, a.taskId))
        scheduled == [k \in 1..Len(new) |-> TaskScheduled(new[k])]
    IN  h \o scheduled
          \o (IF run.state = "Suspended" THEN << >>
              ELSE <<OrchestratorCompleted(run.state, run.output)>>)

\* a replay that records one new task at a time
Replayed_one_by_one(h, input_data) ==
    LET run == image_analyzer_orchestrator(h, input_data)
        new == NewTasks(h, run.actions)
        scheduled == IF new = << >> THEN << >> ELSE <<TaskScheduled(new[1])>>
    IN  h \o scheduled
          \o (IF run.state = "Suspended" THEN << >>
              ELSE <<OrchestratorCompleted(run.state, run.output)>>)

\* the history after one replay: the new tasks are scheduled together, and a
\* finished generator closes the log
Replayed(h, input_data) ==
    LET run == image_analyzer_orchestrator(h, input_data)
        new == NewTasks(h, run.actions)
        scheduled == [k \in 1..Len(new) |-> TaskScheduled(new[k])]
    IN  h \o scheduled
          \o (IF run.state = "Suspended" THEN << >>
              ELSE <<OrchestratorCompleted(run.state, run.output)>>)

StatusAfter(h, input_data) ==
    LET state == image_analyzer_orchestrator(h, input_data).state
    IN  IF state = "Suspended" THEN "Running" ELSE state

\* an instance counts as live from its start on, whatever its status
Live_started(i) == status[i] # "NotStarted"

Live(i) == status[i] \in {"Pending", "Running"}

\* ------------------------------------------------------------------------
\* Actions
\* ------------------------------------------------------------------------
Init ==
    /\ status = [i \in Instances |-> "NotStarted"]
    /\ input = [i \in Instances |-> NoInput]
    /\ history = [i \in Instances |-> << >>]
    /\ table = NoTable
    /\ nextUuid = 1
    /\ crashLog = << >>
    /\ http = << >>
    /\ direct = << >>

\* 1. blob_trigger: a blob arrives and client.start_new creates the instance
blob_trigger(i, name, blob) ==
    /\ status[i] = "NotStarted"
    /\ input' = [input EXCEPT ![i] = [blob_name |-> name,
                                      blob_bytes |-> blob,
                                      blob_size_kb |-> Round(blob.nbytes * 100, 1024)]]
    /\ status' = [status EXCEPT ![i] = "Pending"]
    /\ UNCHANGED <<history, table, nextUuid, crashLog, http, direct>>

\* the host runs the orchestrator of instance i: one replay of its history
Advance(i) ==
    /\ Live(i)
    /\ history' = [history EXCEPT ![i] = Replayed(history[i], input[i])]
    /\ status' = [status EXCEPT ![i] = StatusAfter(history[i], input[i])]
    /\ UNCHANGED <<input, table, nextUuid, crashLog, http, direct>>

\* the host crashes and restarts; instance i is resumed by replaying its history
Resume(i) ==
    /\ Live(i)
    /\ Len(crashLog) < MaxCrashes
    /\ crashLog' = Append(crashLog, [kind |-> "host", instance |-> i,
                                     what |-> IF Outstanding(history[i]) = {}
                                              THEN "idle" ELSE "outstanding"])
    /\ history' = [history EXCEPT ![i] = Replayed(history[i], input[i])]
    /\ status' = [status EXCEPT ![i] = StatusAfter(history[i], input[i])]
    /\ UNCHANGED <<input, table, nextUuid, http, direct>>

\* the input the worker was handed for task t
InputOf(h, t) == h[Min(ScheduledAt(h, t))].input

Dispatched(i, t) ==
    /\ status[i] = "Running"
    /\ t \in Outstanding(history[i])

\* the worker reports the outcome (lost = FALSE), or crashes after running the
\* activity and before reporting, so that the task is dispatched again
Report(i, t, outcome, lost) ==
    IF lost
    THEN /\ Len(crashLog) < MaxCrashes
         /\ crashLog' = Append(crashLog, [kind |-> "worker", instance |-> i,
                                          what |-> ActivityNames[t]])
         /\ UNCHANGED history
    ELSE /\ history' = [history EXCEPT ![i] = Append(@, TaskDone(t, outcome))]
         /\ UNCHANGED crashLog

\* the outcome of analysis activity t on its input
Analysis(t, inputData) ==
    CASE t = 1 -> analyze_colors(inputData)
      [] t = 2 -> analyze_objects(inputData)
      [] t = 3 -> analyze_text(inputData)
      [] t = 4 -> analyze_metadata(inputData)

\* An analysis has no effect but its result: a run whose result is lost with
\* its worker leaves the state as it is, so only reported runs are steps.
RunAnalysis(i, t) ==
    /\ t \in 1..FanOut
    /\ Dispatched(i, t)
    /\ Report(i, t, Analysis(t, InputOf(history[i], t)), FALSE)
    /\ UNCHANGED <<status, input, table, nextUuid, http, direct>>

RunGenerateReport(i, now, lost) ==
    /\ Dispatched(i, GenerateReportId)
    /\ nextUuid <= MaxUuid
    /\ nextUuid' = nextUuid + 1
    /\ Report(i, GenerateReportId,
              generate_report(InputOf(history[i], GenerateReportId), nextUuid, now), lost)
    /\ UNCHANGED <<status, input, table, http, direct>>

RunStoreResults(i, storage, lost) ==
    /\ Dispatched(i, StoreResultsId)
    /\ LET call == store_results(InputOf(history[i], StoreResultsId), table, storage)
       IN  /\ table' = call.table
           /\ Report(i, StoreResultsId, call.outcome, lost)
    /\ UNCHANGED <<status, input, nextUuid, http, direct>>

\* the steps of the instances in I
Step(I) ==
    \/ \E i \in I, up \in Uploads : blob_trigger(i, up.name, up.blob)
    \/ \E i \in I : Advance(i)
    \/ \E i \in I : Resume(i)
    \/ \E i \in I, t \in TaskIds : RunAnalysis(i, t)
    \/ \E i \in I, now \in 1..MaxTime, lost \in BOOLEAN : RunGenerateReport(i, now, lost)
    \/ \E i \in I, storage \in StorageOutcomes, lost \in BOOLEAN :
         RunStoreResults(i, storage, lost)

\* one blob is uploaded: a single instance, any input, crashes included
Next == Step({"i1"})

Spec == Init /\ [][Next]_vars

\* a worker runs a dispatched chain step and reports its outcome
ChainStep ==
    \E i \in Instances :
        \/ \E now \in 1..MaxTime : RunGenerateReport(i, now, FALSE)
        \/ \E storage \in StorageOutcomes : RunStoreResults(i, storage, FALSE)

\* an analysis is dispatched: RunAnalysis is enabled
AnalysisWaiting == \E i \in Instances, t \in 1..FanOut : Dispatched(i, t)

\* the step records the completion of an analysis: it is a RunAnalysis step
AnalysisRecorded ==
    \E i \in Instances, t \in 1..FanOut :
        ~HasCompletion(history[i], t) /\ HasCompletion(history'[i], t)

\* a replay of a live instance would change its history: Advance is enabled
\* and is not a stuttering step
ReplayWaiting ==
    \E i \in Instances : Live(i) /\ Replayed(history[i], input[i]) # history[i]

\* the step is a replay that changed the history of an instance: it
\* scheduled a task or closed the history
ReplayRecorded ==
    \E i \in Instances :
        /\ Len(history'[i]) > Len(history[i])
        /\ history'[i][Len(history'[i])].kind \in {"TaskScheduled", "OrchestratorCompleted"}

\* the scheduling of the framework: work that is waiting is eventually
\* done.  The workers of the chain steps are weakly fair; so are the workers
\* of the analyses and the host that re-enters the orchestrator, whose weak
\* fairness is stated with the enabling condition written out.
Fairness ==
    /\ WF_vars(ChainStep)
    /\ <>[]AnalysisWaiting => []<><<AnalysisRecorded>>_vars
    /\ <>[]ReplayWaiting => []<><<ReplayRecorded>>_vars

FairSpec == Spec /\ Fairness

\* the same blob is uploaded twice
Submission == [name |-> CatName, blob |-> CatPng]

NoParams == [k \in {} |-> ""]

\* GET results/<id>
ById(id) == [route_params |-> [id |-> id], params |-> NoParams]

\* GET results?limit=<chars>
ListLimit(chars) == [route_params |-> NoParams, params |-> [limit |-> chars]]

\* GET results
ListAll == [route_params |-> NoParams, params |-> NoParams]

\* the calls of the HTTP route results/{id?}: by id, for the ids the two
\* reports can get and one that no report gets, and the list, with no
\* limit and with the limits 0, 1, -1 and a
Requests ==
    {ById(UuidStr(n)) : n \in 0..Cardinality(Instances)}
      \cup {ListAll}
      \cup {ListLimit(chars) : chars \in {<<"0">>, <<"1">>, <<"-", "1">>, <<"a">>}}

\* each request served by the storage account, and one request of each kind
\* while the account is unreachable or fails the read
Calls ==
    {[req |-> req, storage |-> "ok"] : req \in Requests}
      \cup {[req |-> req, storage |-> storage] :
               req \in {ById(UuidStr(1)), ListAll}, storage \in ReadOutcomes \ {"ok"}}

\* a client calls get_results
ServeGetResults(req, storage) ==
    /\ LET call == get_results(req, table, storage)
       IN  /\ table' = call.table
           /\ http' = <<[request |-> req, response |-> call.response]>>
    /\ UNCHANGED <<status, input, history, nextUuid, crashLog, direct>>

\* two uploads of the same blob run side by side on a host that does not
\* crash and whose workers take the analyses of an instance in the order of
\* their scheduling, while clients read the results over HTTP
NextPair ==
    \/ \E i \in Instances : blob_trigger(i, Submission.name, Submission.blob)
    \/ \E i \in Instances : Advance(i)
    \/ \E i \in Instances, t \in TaskIds :
         /\ \A earlier \in 1..(t - 1) : earlier \notin Outstanding(history[i])
         /\ RunAnalysis(i, t)
    \/ \E i \in Instances, now \in 1..MaxTime : RunGenerateReport(i, now, FALSE)
    \/ \E i \in Instances, storage \in StorageOutcomes : RunStoreResults(i, storage, FALSE)
    \/ \E call \in Calls : ServeGetResults(call.req, call.storage)

SpecPair == Init /\ [][NextPair]_vars

\* two uploads of the same blob run side by side on a host that loses
\* workers of the chain steps, the analyses of an instance taken in the
\* order of their scheduling
NextChain ==
    \/ \E i \in Instances : blob_trigger(i, Submission.name, Submission.blob)
    \/ \E i \in Instances : Advance(i)
    \/ \E i \in Instances, t \in TaskIds :
         /\ \A earlier \in 1..(t - 1) : earlier \notin Outstanding(history[i])
         /\ RunAnalysis(i, t)
    \/ \E i \in Instances, now \in 1..MaxTime, lost \in BOOLEAN : RunGenerateReport(i, now, lost)
    \/ \E i \in Instances, storage \in StorageOutcomes, lost \in BOOLEAN :
         RunStoreResults(i, storage, lost)

SpecChain == Init /\ [][NextChain]_vars

\* the sections of a reportData: as the analyses return them, and with the
\* keys that generate_report reads with a default left out
MetadataSections ==
    {[width |-> 100, height |-> 50, format |-> "PNG"],
     [height |-> 50, format |-> "JPEG"],
     [width |-> 100],
     [error |-> "cannot identify image file"]}

ColorSections ==
    {[dominantColors |-> <<[hex |-> "#c06020"], [hex |-> "#000000"]>>, isGrayscale |-> FALSE],
     [dominantColors |-> <<[hex |-> "#808080"]>>, isGrayscale |-> TRUE],
     [dominantColors |-> << >>, isGrayscale |-> FALSE],
     [error |-> "image file is truncated"]}

ObjectSections == {[objects |-> <<[name |-> "landscape"]>>, objectCount |-> 1], [note |-> "none"]}

TextSections == {[hasText |-> TRUE], [hasText |-> FALSE], [note |-> "none"]}

ReportInputs ==
    {[blob_name |-> name, colors |-> colors, objects |-> objects,
      text |-> text, metadata |-> metadata] :
        name \in {CatName, [isNone |-> FALSE, parts |-> <<"dog.jpg">>]},
        colors \in ColorSections, objects \in ObjectSections,
        text \in TextSections, metadata \in MetadataSections}

\* generate_report is called on some reportData
InitReport ==
    /\ status = [i \in Instances |-> "NotStarted"]
    /\ input = [i \in Instances |-> NoInput]
    /\ history = [i \in Instances |-> << >>]
    /\ table = NoTable
    /\ nextUuid = 1
    /\ crashLog = << >>
    /\ http = << >>
    /\ direct \in {<<[reportData |-> reportData]>> : reportData \in ReportInputs}

\* the call returns, at some time and with some uuid4 value
ReturnReport(uuid, now) ==
    /\ direct # << >>
    /\ "report" \notin DOMAIN direct[1]
    /\ direct' = <<[reportData |-> direct[1].reportData,
                    report |-> generate_report(direct[1].reportData, uuid, now).value]>>
    /\ UNCHANGED <<status, input, history, table, nextUuid, crashLog, http>>

NextReport == \E uuid \in 1..MaxUuid, now \in 1..MaxTime : ReturnReport(uuid, now)

SpecReport == InitReport /\ [][NextReport]_vars

\* ------------------------------------------------------------------------
\* Properties
\* ------------------------------------------------------------------------
\* positions in h of the TaskScheduled events of the activity called name
ScheduledNamed(h, name) ==
    {k \in 1..Len(h) : h[k].kind = "TaskScheduled" /\ h[k].name = name}

\* positions in h of the completion events of the activity called name
CompletedNamed(h, name) ==
    LET ids == {h[s].taskId : s \in ScheduledNamed(h, name)}
    IN  {k \in 1..Len(h) :
            /\ h[k].kind \in {"TaskCompleted", "TaskFailed"}
            /\ h[k].taskId \in ids}

\* the result recorded for the activity called name
ResultNamed(h, name) == h[Min(CompletedNamed(h, name))].result

AllFourCompleted(h) ==
    \A k \in 1..FanOut : CompletedNamed(h, AnalysisNames[k]) # {}

\* the replay of h yields generate_report
ResumesPastFanIn(h, input_data) ==
    \E k \in DOMAIN image_analyzer_orchestrator(h, input_data).actions :
        image_analyzer_orchestrator(h, input_data).actions[k].name = "generate_report"

\* C1: fan-in completeness.  The orchestration gets past task_all, so that
\* generate_report is yielded, if and only if each of the four analysis
\* tasks has a completion event, in whatever order the completions arrived;
\* and a generate_report that is scheduled has all four behind it.
FanInCompleteness ==
    \A i \in Instances :
        /\ ResumesPastFanIn(history[i], input[i]) <=> AllFourCompleted(history[i])
        /\ ScheduledNamed(history[i], "generate_report") # {} => AllFourCompleted(history[i])

\* generate_report is scheduled after the completions arrived last task first
FanInOutOfOrder ==
    \E i \in Instances :
        /\ ScheduledNamed(history[i], "generate_report") # {}
        /\ Min(CompletedNamed(history[i], "analyze_metadata"))
             < Min(CompletedNamed(history[i], "analyze_text"))
        /\ Min(CompletedNamed(history[i], "analyze_text"))
             < Min(CompletedNamed(history[i], "analyze_objects"))
        /\ Min(CompletedNamed(history[i], "analyze_objects"))
             < Min(CompletedNamed(history[i], "analyze_colors"))

\* C2: positional result binding.  Whatever the arrival order, the
\* report_input handed to generate_report carries in colors, objects, text
\* and metadata the result recorded for the activity of that name, which is
\* what that activity returns on the instance input; blob_name is the input's.
PositionalBinding ==
    \A i \in Instances :
        ScheduledNamed(history[i], "generate_report") # {} =>
            LET report_input == history[i][Min(ScheduledNamed(history[i], "generate_report"))].input
            IN  /\ report_input.blob_name = input[i].blob_name
                /\ report_input.colors = ResultNamed(history[i], "analyze_colors")
                /\ report_input.objects = ResultNamed(history[i], "analyze_objects")
                /\ report_input.text = ResultNamed(history[i], "analyze_text")
                /\ report_input.metadata = ResultNamed(history[i], "analyze_metadata")
                /\ report_input.colors = analyze_colors(input[i]).value
                /\ report_input.objects = analyze_objects(input[i]).value
                /\ report_input.text = analyze_text(input[i]).value
                /\ report_input.metadata = analyze_metadata(input[i]).value

\* the report input of a valid image is built although analyze_colors was
\* the last to complete and analyze_metadata the first
BoundAfterPermutedArrival ==
    \E i \in Instances :
        /\ input[i].blob_bytes = CatPng
        /\ ScheduledNamed(history[i], "generate_report") # {}
        /\ \A name \in {"analyze_objects", "analyze_text", "analyze_metadata"} :
              Min(CompletedNamed(history[i], name)) < Min(CompletedNamed(history[i], "analyze_colors"))
        /\ \A name \in {"analyze_colors", "analyze_objects", "analyze_text"} :
              Min(CompletedNamed(history[i], "analyze_metadata")) < Min(CompletedNamed(history[i], name))

\* every completion of the activities in names precedes position k of h
AllCompletedBefore(h, names, k) ==
    \A name \in names :
        LET done == CompletedNamed(h, name)
        IN  /\ done # {}
            /\ \A c \in done : h[c].kind = "TaskCompleted" /\ c < k

AnalysisNameSet == {AnalysisNames[k] : k \in 1..FanOut}

\* the instance has generated the report stored under row key id
OwnsRow(i, id) ==
    /\ ScheduledNamed(history[i], "store_results") # {}
    /\ history[i][Min(ScheduledNamed(history[i], "store_results"))].input.id = id
    /\ AllCompletedBefore(history[i], AnalysisNameSet \cup {"generate_report"}, Len(history[i]) + 1)

\* C3: chain ordering.  generate_report is scheduled only after the four
\* analyses have completed, store_results only after generate_report has
\* completed, and a row is in the table only for an instance whose four
\* analyses and report generation have completed.
ChainOrdering ==
    /\ \A i \in Instances :
          /\ \A k \in ScheduledNamed(history[i], "generate_report") :
                AllCompletedBefore(history[i], AnalysisNameSet, k)
          /\ \A k \in ScheduledNamed(history[i], "store_results") :
                AllCompletedBefore(history[i], AnalysisNameSet \cup {"generate_report"}, k)
    /\ \A key \in DOMAIN table.rows : \E i \in Instances : OwnsRow(i, key[2])

\* a report has been written to the table
RowWritten == DOMAIN table.rows # {}

\* C4: at-most-once scheduling.  Over any crashes and resumptions, each of
\* the six activities of an instance has at most one TaskScheduled event in
\* the history: a replay never schedules again a task that is scheduled.
AtMostOnceScheduling ==
    \A i \in Instances :
        /\ \A name \in {ActivityNames[k] : k \in TaskIds} :
              Cardinality(ScheduledNamed(history[i], name)) <= 1
        /\ \A t \in TaskIds : Cardinality(ScheduledAt(history[i], t)) <= 1

\* the host restarted and replayed an instance while tasks of it were
\* scheduled and not completed, and they still are
ResumedWithOutstanding ==
    \E i \in Instances, k \in DOMAIN crashLog :
        /\ crashLog[k] = [kind |-> "host", instance |-> i, what |-> "outstanding"]
        /\ Outstanding(history[i]) # {}

\* C5: replay determinism.  A replay of a history that a replay has just
\* extended schedules nothing more and leaves the same tasks pending, and
\* every TaskScheduled event in the history is the task, with the same name
\* and input, that a replay of the current history yields under that id.
ReplayDeterminism ==
    \A i \in Instances :
        Live(i) =>
            LET once == Replayed(history[i], input[i])
                run == image_analyzer_orchestrator(history[i], input[i])
            IN  /\ StatusAfter(history[i], input[i]) = "Running" =>
                      /\ Replayed(once, input[i]) = once
                      /\ NewTasks(once, image_analyzer_orchestrator(once, input[i]).actions) = << >>
                      /\ Outstanding(Replayed(once, input[i])) = Outstanding(once)
                /\ \A k \in DOMAIN history[i] :
                      history[i][k].kind = "TaskScheduled" =>
                          \E a \in DOMAIN run.actions :
                              /\ run.actions[a].taskId = history[i][k].taskId
                              /\ run.actions[a].name = history[i][k].name
                              /\ run.actions[a].input = history[i][k].input

\* an instance waiting at a chain step was replayed by a restarted host
ReplayedAtChainStep ==
    \E i \in Instances, k \in DOMAIN crashLog :
        /\ crashLog[k].kind = "host"
        /\ crashLog[k].instance = i
        /\ status[i] = "Running"
        /\ ScheduledNamed(history[i], "generate_report") # {}
        /\ Outstanding(history[i]) # {}

\* the report generate_report returned to instance i
ReportOf(i) == ResultNamed(history[i], "generate_report")

ReportGenerated(i) ==
    /\ CompletedNamed(history[i], "generate_report") # {}
    /\ history[i][Min(CompletedNamed(history[i], "generate_report"))].kind = "TaskCompleted"

\* the output of a finished instance
OutputOf(i) == history[i][Len(history[i])].output

RowKeyOf(i) == <<PARTITION, ReportOf(i).id>>

TryError(name, blob) ==
    IF name = "analyze_colors" THEN LoadError(blob) ELSE OpenError(blob)

\* C7: non-short-circuiting failure policy.  An analysis whose computation
\* raises completes with a result that carries the message in 'error' (never
\* a TaskFailed), the fan-in is satisfied by four such completions, an
\* instance is never Failed because of an analysis error (only a failed
\* chain step fails it), and a Completed instance has scheduled
\* generate_report and store_results.
NonShortCircuiting ==
    \A i \in Instances :
        /\ \A k \in 1..FanOut : \A c \in CompletedNamed(history[i], AnalysisNames[k]) :
              /\ history[i][c].kind = "TaskCompleted"
              /\ ("error" \in DOMAIN history[i][c].result)
                   <=> (TryError(AnalysisNames[k], input[i].blob_bytes) # "")
              /\ "error" \in DOMAIN history[i][c].result =>
                   history[i][c].result.error = TryError(AnalysisNames[k], input[i].blob_bytes)
        /\ AllFourCompleted(history[i]) => ResumesPastFanIn(history[i], input[i])
        /\ status[i] = "Failed" =>
              \E k \in DOMAIN history[i] :
                  /\ history[i][k].kind = "TaskFailed"
                  /\ history[i][k].taskId \in {GenerateReportId, StoreResultsId}
        /\ ~input[i].blob_name.isNone => status[i] # "Failed"
        /\ status[i] = "Completed" =>
              /\ ScheduledNamed(history[i], "generate_report") # {}
              /\ ScheduledNamed(history[i], "store_results") # {}

\* an instance whose four analyses all failed on an undecodable blob is Completed
CompletedDespiteErrors ==
    \E i \in Instances :
        /\ input[i].blob_bytes = Garbage
        /\ status[i] = "Completed"
        /\ \A k \in 1..FanOut : "error" \in DOMAIN ResultNamed(history[i], AnalysisNames[k])

\* the input with the pixel data of its blob intact
Intact(input_data) ==
    [input_data EXCEPT !.blob_bytes.loadable = TRUE, !.blob_bytes.pixels = CatPng.pixels]

\* C8: partial-failure isolation.  When analyze_colors raises, the report
\* has in analyses.colors dominantColors = [] and the message in 'error';
\* analyses.objects, text and metadata are the results recorded for their
\* activities, and for a blob that opens they are non-empty, carry no error
\* and equal what those activities return when the pixel data is intact.
PartialFailureIsolation ==
    \A i \in Instances :
        (ReportGenerated(i) /\ LoadError(input[i].blob_bytes) # "") =>
            LET analyses == ReportOf(i).analyses
            IN  /\ analyses.colors.dominantColors = << >>
                /\ "error" \in DOMAIN analyses.colors
                /\ analyses.colors.error = LoadError(input[i].blob_bytes)
                /\ ReportOf(i).summary.dominantColor = "N/A"
                /\ analyses.objects = ResultNamed(history[i], "analyze_objects")
                /\ analyses.text = ResultNamed(history[i], "analyze_text")
                /\ analyses.metadata = ResultNamed(history[i], "analyze_metadata")
                /\ input[i].blob_bytes.decodable =>
                      /\ analyses.objects = analyze_objects(Intact(input[i])).value
                      /\ analyses.text = analyze_text(Intact(input[i])).value
                      /\ analyses.metadata = analyze_metadata(Intact(input[i])).value
                      /\ analyses.objects.objects # << >>
                      /\ analyses.metadata.width = input[i].blob_bytes.width
                      /\ \A section \in {"objects", "text", "metadata"} :
                            "error" \notin DOMAIN analyses[section]

\* a report was generated for a blob that opens and whose pixel data is cut off
ReportWithFailedColors ==
    \E i \in Instances :
        /\ input[i].blob_bytes = TruncatedJpg
        /\ ReportGenerated(i)

\* the completion events of the activity called name in instance i
CompletionsOf(i, name) == {history[i][k] : k \in CompletedNamed(history[i], name)}

IdempotentUpsert ==
    \A i \in Instances :
        ScheduledNamed(history[i], "store_results") # {} =>
            LET entity == Entity(history[i][Min(ScheduledNamed(history[i], "store_results"))].input)
                key == <<entity.PartitionKey, entity.RowKey>>
                once == upsert_entity(get_table_client(table), entity)
                twice == upsert_entity(get_table_client(once), entity)
            IN  /\ twice = once
                /\ key \in DOMAIN once.rows
                /\ twice.rows[key] = entity
                /\ DOMAIN twice.rows = DOMAIN table.rows \cup {key}
                /\ \A k \in DOMAIN table.rows \ {key} : twice.rows[k] = table.rows[k]
                /\ key \in DOMAIN table.rows => once.rows = table.rows

\* store_results wrote the row and its worker was lost before reporting:
\* the task is outstanding and its next run writes the same entity again
RowWrittenAndTaskOutstanding ==
    \E i \in Instances, k \in DOMAIN crashLog :
        /\ crashLog[k] = [kind |-> "worker", instance |-> i, what |-> "store_results"]
        /\ StoreResultsId \in Outstanding(history[i])
        /\ <<PARTITION, history[i][Min(ScheduledNamed(history[i], "store_results"))].input.id>>
             \in DOMAIN table.rows

\* store_results of instance i has returned a record of status 'stored'
Stored(i) ==
    \E e \in CompletionsOf(i, "store_results") :
        e.kind = "TaskCompleted" /\ e.result.status = "stored"

\* C11: cross-instance isolation.  Two instances started with the same
\* payload, in any interleaving of their steps, get reports with distinct
\* ids; the row of an instance whose store_results returned 'stored' is in
\* the table and is the entity of its own report, whatever the other
\* instance has written; and every row of the table is the entity of the
\* report of exactly one instance.
CrossInstanceIsolation ==
    /\ \A i, j \in Instances :
          (i # j /\ ReportGenerated(i) /\ ReportGenerated(j)) =>
              ReportOf(i).id # ReportOf(j).id
    /\ \A i \in Instances :
          Stored(i) =>
              /\ RowKeyOf(i) \in DOMAIN table.rows
              /\ table.rows[RowKeyOf(i)] = Entity(ReportOf(i))
    /\ \A key \in DOMAIN table.rows :
          /\ Cardinality({i \in Instances : ReportGenerated(i) /\ RowKeyOf(i) = key}) = 1
          /\ \A i \in Instances :
                (ReportGenerated(i) /\ RowKeyOf(i) = key) =>
                    table.rows[key] = Entity(ReportOf(i))

\* both submissions of the same payload are Completed and stored, the
\* second instance having written its row first
BothStoredSamePayload ==
    /\ input["i1"] = input["i2"]
    /\ \A i \in Instances : status[i] = "Completed" /\ Stored(i)
    /\ Cardinality(DOMAIN table.rows) = 2
    /\ ReportOf("i2").id = UuidStr(1)
    /\ ReportOf("i1").analyzedAt = ReportOf("i2").analyzedAt

\* store_results has written the report of instance i to the table
ReportWritten(i) ==
    /\ ReportGenerated(i)
    /\ RowKeyOf(i) \in DOMAIN table.rows

\* the last call of get_results asked for the report of instance i by its id
AskedFor(i) ==
    /\ http # << >>
    /\ http[1].request = ById(ReportOf(i).id)

\* C12: store/read round trip.  For every report that store_results has
\* written, a get-by-id with the report's id that the storage account
\* serves answers 200 with id, fileName, blobPath, analyzedAt, summary and
\* analyses.colors, objects, text and metadata equal to those of the report
\* that generate_report returned, and a 200 answer to such a call that was
\* made carries exactly these values.
StoreReadRoundTrip ==
    \A i \in Instances :
        ReportWritten(i) =>
            /\ LET response == get_results(ById(ReportOf(i).id), table, "ok").response
                   result == JsonLoads(response.body)
               IN  /\ response.status_code = 200
                   /\ result.id = ReportOf(i).id
                   /\ result.fileName = ReportOf(i).fileName
                   /\ result.blobPath = ReportOf(i).blobPath
                   /\ result.analyzedAt = ReportOf(i).analyzedAt
                   /\ result.summary = ReportOf(i).summary
                   /\ \A section \in {"colors", "objects", "text", "metadata"} :
                         result.analyses[section] = ReportOf(i).analyses[section]
            /\ (AskedFor(i) /\ http[1].response.status_code = 200) =>
                  JsonLoads(http[1].response.body) = ReportOf(i)

\* a client has read back by id the report of the first instance while the
\* report of the second is in the table as well
ReadBackStoredReport ==
    /\ \A i \in Instances : ReportWritten(i)
    /\ AskedFor("i1")
    /\ http[1].response.status_code = 200
    /\ JsonLoads(http[1].response.body).summary.imageSize = "100x50"

\* the step is a call of get_results with an id
GetByIdStep ==
    /\ http' # http
    /\ "id" \in DOMAIN http'[1].request.route_params

NotFound(id) == HttpResponse([error |-> "Result not found: " \o id], 404)

\* C13 as stated: a call of get_results with an id answers 404 with
\* {error: 'Result not found: <id>'} if no row with that key is in the
\* table and 200 with the record if there is one, and leaves the rows of
\* the table as they were.
GetByIdOutcome ==
    [][GetByIdStep =>
         LET id == http'[1].request.route_params.id
             key == <<PARTITION, id>>
         IN  /\ table'.rows = table.rows
             /\ http'[1].response =
                   IF key \in DOMAIN table.rows
                   THEN HttpResponse(ResultOf(table.rows[key]), 200)
                   ELSE NotFound(id)]_vars

\* C13 amended: a call of get_results with an id answers 500 with {error}
\* if the table client cannot be obtained; otherwise it answers 404 with
\* {error: 'Result not found: <id>'} if no row with that key is in the table
\* or the read of the row raises, and 200 with the record if the row is
\* there and is read.  The call never adds, changes or removes a row; unless
\* it answers 500 it creates the table when the table does not exist yet.
GetByIdOutcomeServed ==
    [][GetByIdStep =>
         LET id == http'[1].request.route_params.id
             key == <<PARTITION, id>>
             response == http'[1].response
             served == get_results(http'[1].request, table, "ok").response
         IN  /\ table'.rows = table.rows
             /\ response.status_code \in {200, 404, 500}
             /\ response.status_code = 200 =>
                   /\ key \in DOMAIN table.rows
                   /\ response = HttpResponse(ResultOf(table.rows[key]), 200)
             /\ response.status_code = 404 => response = NotFound(id)
             /\ response.status_code = 500 =>
                   /\ DOMAIN JsonLoads(response.body) = {"error"}
                   /\ table' = table
             /\ response.status_code # 500 => table' = get_table_client(table)
             /\ key \notin DOMAIN table.rows => response.status_code # 200
             /\ served = IF key \in DOMAIN table.rows
                         THEN HttpResponse(ResultOf(table.rows[key]), 200)
                         ELSE NotFound(id)]_vars

\* a client asked for an id that no report has, with the reports of both
\* instances in the table, and was answered 404
NotFoundBesideStoredReports ==
    /\ Cardinality(DOMAIN table.rows) = Cardinality(Instances)
    /\ http # << >>
    /\ http[1].request = ById(UuidStr(0))
    /\ http[1].response = NotFound(UuidStr(0))

\* the step is a call of get_results without an id that is answered 200
ListStep ==
    /\ http' # http
    /\ "id" \notin DOMAIN http'[1].request.route_params
    /\ http'[1].response.status_code = 200

\* the limit of a list request: the parameter, 10 when it is not given
LimitOf(request) == int(Get(request.params, "limit", <<"1", "0">>)).value

\* C14: list query.  A call of get_results without an id returns {count,
\* results}, where results holds stored records of partition ImageAnalysis,
\* each once, sorted by analyzedAt in descending order and truncated to the
\* limit of the request (10 when none is given): results has at most limit
\* entries (none for a limit below 1), no record left out is more recent
\* than one returned, and count is the number of entries returned.
ListQuery ==
    [][ListStep =>
         LET limit == LimitOf(http'[1].request)
             payload == JsonLoads(http'[1].response.body)
             results == payload.results
             stored == {ListEntryOf(table.rows[key]) :
                          key \in {k \in DOMAIN table.rows : k[1] = PARTITION}}
             returned == {results[k] : k \in DOMAIN results}
         IN  /\ DOMAIN payload = {"count", "results"}
             /\ returned \subseteq stored
             /\ Cardinality(returned) = Len(results)
             /\ \A a, b \in DOMAIN results :
                   a < b => results[a].analyzedAt >= results[b].analyzedAt
             /\ Len(results) <= (IF limit > 0 THEN limit ELSE 0)
             /\ Len(results) < limit => returned = stored
             /\ \A left \in stored \ returned, r \in returned :
                   r.analyzedAt >= left.analyzedAt
             /\ payload.count = Len(results)]_vars

Terminal == {"Completed", "Failed"}

\* C15: terminal status and immutable input.  Once the status of an
\* instance is Completed or Failed, no step changes its status or its
\* history: the OrchestratorCompleted event is the one last event, no task
\* is scheduled after it and none is outstanding.  From its start on, no
\* step changes the input of an instance, and the TaskScheduled event of
\* each of the four analysis activities carries exactly that input.
TerminalAndImmutableInput ==
    [][\A i \in Instances :
         /\ status[i] \in Terminal =>
               /\ status'[i] = status[i]
               /\ history'[i] = history[i]
         /\ status[i] # "NotStarted" => input'[i] = input[i]
         /\ \A k \in DOMAIN history'[i] :
               /\ (history'[i][k].kind = "TaskScheduled" /\ history'[i][k].taskId \in 1..FanOut)
                    => history'[i][k].input = input'[i]
               /\ history'[i][k].kind = "OrchestratorCompleted" =>
                    /\ k = Len(history'[i])
                    /\ history'[i][k].status = status'[i]
         /\ status'[i] \in Terminal =>
               /\ history'[i][Len(history'[i])].kind = "OrchestratorCompleted"
               /\ Outstanding(history'[i]) = {}]_vars

\* an instance has Failed after the host restarted it with its four
\* analysis tasks scheduled on the input it was started with
FailedAfterRestart ==
    \E i \in Instances, k \in DOMAIN crashLog :
        /\ crashLog[k].kind = "host"
        /\ crashLog[k].instance = i
        /\ status[i] = "Failed"
        /\ \A t \in 1..FanOut : InputOf(history[i], t) = input[i]

\* the completion of the activity called name was recorded by this step
NewlyCompleted(i, name) ==
    /\ CompletedNamed(history[i], name) = {}
    /\ CompletedNamed(history'[i], name) # {}

\* what the chain tasks in history h of an instance started with input_data
\* were handed, and what the instance returned
ChainInputs(h, input_data) ==
    /\ ScheduledNamed(h, "generate_report") # {} =>
          h[Min(ScheduledNamed(h, "generate_report"))].input
            = [blob_name |-> input_data.blob_name,
               colors |-> ResultNamed(h, "analyze_colors"),
               objects |-> ResultNamed(h, "analyze_objects"),
               text |-> ResultNamed(h, "analyze_text"),
               metadata |-> ResultNamed(h, "analyze_metadata")]
    /\ ScheduledNamed(h, "store_results") # {} =>
          /\ CompletedNamed(h, "generate_report") # {}
          /\ h[Min(CompletedNamed(h, "generate_report"))].kind = "TaskCompleted"
          /\ h[Min(ScheduledNamed(h, "store_results"))].input = ResultNamed(h, "generate_report")
    /\ (h # << >> /\ h[Len(h)].kind = "OrchestratorCompleted" /\ h[Len(h)].status = "Completed") =>
          /\ CompletedNamed(h, "store_results") # {}
          /\ h[Len(h)].output = ResultNamed(h, "store_results")
          /\ h[Len(h)].output.id = ResultNamed(h, "generate_report").id

\* C16: chain data flow.  The input of generate_report is the blob name of
\* the instance input with the four results recorded for the instance's
\* analyses; the input of store_results is the report recorded for
\* generate_report of the same instance; the output of a Completed instance
\* is the record recorded for its store_results.  The report recorded is the
\* one the reporting run of generate_report built from the input scheduled
\* for this instance with the uuid it drew itself, not that of a run lost
\* before; the record is what store_results returns on the input scheduled
\* for this instance; and two instances never hand the same report to
\* store_results.
ChainDataFlow ==
    [][/\ \A i \in Instances :
            /\ ChainInputs(history'[i], input'[i])
            /\ NewlyCompleted(i, "generate_report") =>
                  \E now \in 1..MaxTime :
                      ResultNamed(history'[i], "generate_report")
                        = generate_report(InputOf(history[i], GenerateReportId), nextUuid, now).value
            /\ NewlyCompleted(i, "store_results") =>
                  \E storage \in StorageOutcomes :
                      ResultNamed(history'[i], "store_results")
                        = store_results(InputOf(history[i], StoreResultsId), table, storage).outcome.value
       /\ \A i, j \in Instances :
            (i # j /\ ScheduledNamed(history'[i], "store_results") # {}
                   /\ ScheduledNamed(history'[j], "store_results") # {}) =>
                InputOf(history'[i], StoreResultsId) # InputOf(history'[j], StoreResultsId)
      ]_vars

\* both instances are Completed, the first with the report of the second run
\* of generate_report after the worker of its first run was lost
ChainAfterLostReport ==
    /\ \A i \in Instances : status[i] = "Completed"
    /\ \E k \in DOMAIN crashLog :
          crashLog[k] = [kind |-> "worker", instance |-> "i1", what |-> "generate_report"]
    /\ OutputOf("i1").status = "stored"
    /\ OutputOf("i1").id = UuidStr(MaxUuid)

\* the analysis tasks with a TaskScheduled event in h
ScheduledAnalyses(h) == {t \in 1..FanOut : IsScheduled(h, t)}

\* C17: atomic fan-out.  The history of an instance has a TaskScheduled
\* event for none or for all four of the analysis activities; the step that
\* schedules them appends the four events together, one per activity in the
\* order of the task list, to a history that had none; and an instance that
\* is suspended has all four scheduled.
AtomicFanOut ==
    [][\A i \in Instances :
         LET before == ScheduledAnalyses(history[i])
             after == ScheduledAnalyses(history'[i])
         IN  /\ after \in {{}, 1..FanOut}
             /\ after # before =>
                   /\ before = {}
                   /\ Len(history'[i]) = Len(history[i]) + FanOut
                   /\ \A k \in 1..FanOut :
                         LET e == history'[i][Len(history[i]) + k]
                         IN  /\ e.kind = "TaskScheduled"
                             /\ e.taskId = k
                             /\ e.name = AnalysisNames[k]
             /\ status'[i] = "Running" => after = 1..FanOut
             /\ \A name \in {"generate_report", "store_results"} :
                   ScheduledNamed(history'[i], name) # {} => after = 1..FanOut]_vars

\* the host restarted an instance after its fan-out, with some of the four
\* analyses completed and the others outstanding
RestartedInsideFanOut ==
    \E i \in Instances, k \in DOMAIN crashLog :
        /\ crashLog[k] = [kind |-> "host", instance |-> i, what |-> "outstanding"]
        /\ ScheduledAnalyses(history[i]) = 1..FanOut
        /\ Outstanding(history[i]) \notin {{}, 1..FanOut}
        /\ Len(history[i]) < 2 * FanOut

\* generate_report has returned the report of a direct call
Reported == direct # << >> /\ "report" \in DOMAIN direct[1]

\* C18: the summary is a function of the embedded analyses.  In a report
\* built by generate_report, summary.imageSize is '<width>x<height>' of
\* analyses.metadata with 0 for a dimension that is missing, summary.format
\* is metadata.format or 'Unknown', summary.dominantColor is the hex of the
\* first entry of colors.dominantColors or 'N/A' when the list is empty or
\* absent, summary.objectsDetected is objects.objectCount or 0,
\* summary.hasText is text.hasText or false, summary.isGrayscale is
\* colors.isGrayscale or false; the summary has these six fields only, and
\* any report of equal analyses, whatever its blob name, id and time, has
\* the same summary.
SummaryFromAnalyses ==
    Reported =>
        LET report == direct[1].report
            analyses == report.analyses
            summary == report.summary
            width == IF "width" \in DOMAIN analyses.metadata
                     THEN ToString(analyses.metadata.width) ELSE "0"
            height == IF "height" \in DOMAIN analyses.metadata
                      THEN ToString(analyses.metadata.height) ELSE "0"
        IN  /\ DOMAIN summary = {"imageSize", "format", "dominantColor",
                                 "objectsDetected", "hasText", "isGrayscale"}
            /\ summary.imageSize = width \o "x" \o height
            /\ summary.format = IF "format" \in DOMAIN analyses.metadata
                                THEN analyses.metadata.format ELSE "Unknown"
            /\ summary.dominantColor =
                  IF "dominantColors" \in DOMAIN analyses.colors
                       /\ Len(analyses.colors.dominantColors) > 0
                  THEN analyses.colors.dominantColors[1].hex
                  ELSE "N/A"
            /\ summary.objectsDetected = IF "objectCount" \in DOMAIN analyses.objects
                                         THEN analyses.objects.objectCount ELSE 0
            /\ summary.hasText = ("hasText" \in DOMAIN analyses.text /\ analyses.text.hasText)
            /\ summary.isGrayscale = ("isGrayscale" \in DOMAIN analyses.colors
                                        /\ analyses.colors.isGrayscale)
            /\ \A other \in ReportInputs, uuid \in 1..MaxUuid, now \in 1..MaxTime :
                  generate_report(other, uuid, now).value.analyses = analyses
                      => generate_report(other, uuid, now).value.summary = summary

\* a report was built from a metadata section without a width and a colors
\* section without a colour list
ReportWithDefaults ==
    /\ Reported
    /\ "width" \notin DOMAIN direct[1].report.analyses.metadata
    /\ "dominantColors" \notin DOMAIN direct[1].report.analyses.colors
    /\ direct[1].report.summary.imageSize = "0x50"
    /\ direct[1].report.summary.dominantColor = "N/A"
    /\ direct[1].report.summary.objectsDetected = 1

\* C19: swallowed storage error.  On the report handed to it, store_results
\* returns under every behaviour of the storage account: the record has
\* status 'stored' exactly when the table client was obtained and the upsert
\* returned, and otherwise it is {id, status: 'error', error} with the id of
\* the report, and the rows of the table are as they were.  The run that is
\* recorded is recorded as TaskCompleted; with 'stored' the row of the
\* report is in the table, with 'error' the run has changed no row; and the
\* instance completes with the recorded record as its output.
SwallowedStorageError ==
    [][\A i \in Instances :
         /\ StoreResultsId \in Outstanding(history[i]) =>
               \A storage \in StorageOutcomes :
                   LET report == InputOf(history[i], StoreResultsId)
                       call == store_results(report, table, storage)
                       record == call.outcome.value
                   IN  /\ call.outcome.ok
                       /\ record.status = "stored" <=> storage = "ok"
                       /\ record.status = "error" <=> storage # "ok"
                       /\ record.status = "error" =>
                             /\ DOMAIN record = {"id", "status", "error"}
                             /\ record.id = report.id
                             /\ call.table.rows = table.rows
         /\ NewlyCompleted(i, "store_results") =>
               LET report == InputOf(history[i], StoreResultsId)
                   e == history'[i][Len(history'[i])]
                   key == <<PARTITION, report.id>>
               IN  /\ e.kind = "TaskCompleted"
                   /\ e.result.status \in {"stored", "error"}
                   /\ e.result.status = "stored" =>
                         /\ key \in DOMAIN table'.rows
                         /\ table'.rows[key] = Entity(report)
                   /\ e.result.status = "error" => table'.rows = table.rows
                   /\ StatusAfter(history'[i], input[i]) = "Completed"
         /\ status'[i] = "Completed" =>
               history'[i][Len(history'[i])].output = ResultNamed(history'[i], "store_results")
      ]_vars

\* an instance is Completed with an error record as its output and no row
\* in the table
CompletedWithErrorRecord ==
    \E i \in Instances :
        /\ status[i] = "Completed"
        /\ OutputOf(i).status = "error"
        /\ OutputOf(i).id = ReportOf(i).id
        /\ DOMAIN table.rows = {}

\* a replay of instance i would get past the yield it is suspended at
AwaitedEventsExist(i) ==
    /\ status[i] = "Running"
    /\ Replayed(history[i], input[i]) # history[i]

\* C20: termination.  When the host keeps re-entering the orchestrator and
\* every dispatched activity is eventually reported, every started instance
\* eventually is Completed or Failed, whatever host restarts and lost
\* workers occur (finitely many); and an instance whose awaited completions
\* are all in the history does not stay suspended: it moves on or ends.
Termination ==
    \A i \in Instances :
        /\ (status[i] # "NotStarted") ~> (status[i] \in Terminal)
        /\ AwaitedEventsExist(i) ~> ~AwaitedEventsExist(i)

\* an instance has ended after the host restarted it or a worker was lost,
\* as often as the run allows
EndedAfterCrashes ==
    \E i \in Instances :
        /\ status[i] \in Terminal
        /\ Len(crashLog) = MaxCrashes
        /\ \A k \in DOMAIN crashLog : crashLog[k].instance = i

====
